---------------------------- MODULE Spec2Model ----------------------------
(***************************************************************************)
(* Model of the NFC auto-locker (src/card_reader_app.py, src/add_user.py). *)
(*                                                                         *)
(* AccessControlApp.check_loop is the periodic tick: it polls the reader,  *)
(* resolves the card against the cached registry, does edge detection with *)
(* audit logging, and runs the timeout / lock / display step.  The whole   *)
(* body of check_loop is one try block: a call that raises ends the body   *)
(* at that statement and the tick is rescheduled.                          *)
(*                                                                         *)
(* Time is counted in whole seconds.  A tick is treated as instantaneous:  *)
(* every time.time() call of one tick returns the same value.  Only        *)
(* differences of timestamps matter to the program, so the clock is read   *)
(* on a scale whose zero is the tick under way: time.time() is Now = 0, a  *)
(* timestamp taken n seconds ago is -n, and every stored timestamp moves   *)
(* back by dt when the next tick runs dt seconds later.                    *)
(***************************************************************************)
EXTENDS Integers, Sequences, FiniteSets, TLC

(***************************************************************************)
(* Bounds of the model.                                                    *)
(***************************************************************************)
MaxStep == 2      \* longest gap between two ticks, in seconds
MaxIdle == 2      \* Spec: oldest timer start a tick is run with, in seconds
MaxAge == 12      \* SpecTimeout: the same, long enough for the timer to expire
MaxLog == 3       \* longest audit trail
MaxWrites == 1    \* number of writes to the users file

(***************************************************************************)
(* Program constants.                                                      *)
(***************************************************************************)
TIMEOUT_SECONDS == 10
FIRST_DELAY_MS == 100
TICK_DELAY_MS == 1000
SW_SUCCESS_1 == 144       \* 0x90
SW_SUCCESS_2 == 0         \* 0x00
Now == 0                  \* time.time() at the tick under way
NoTime == 1               \* None in place of a timestamp

None == "None"

Names == {"Alice", "Bob"}


(***************************************************************************)
(* The reader: get_card_uid and AccessControlApp.read_card.                *)
(***************************************************************************)
HexDigits == <<"0", "1", "2", "3", "4", "5", "6", "7",
               "8", "9", "A", "B", "C", "D", "E", "F">>

\* format(byte, '02X')
Format02X(byte) == HexDigits[(byte \div 16) + 1] \o HexDigits[(byte % 16) + 1]

\* ''.join(format(byte, '02X') for byte in response)
RECURSIVE JoinHex(_)
JoinHex(response) ==
    IF response = <<>> THEN ""
    ELSE Format02X(Head(response)) \o JoinHex(Tail(response))

\* Identifier payloads of the cards that can be put on the reader.
CardBytes == {<<161>>, <<178>>}

\* One connect / transmit / disconnect exchange with the reader.  With no
\* card on the reader the connect raises.
ReaderExchanges ==
    [response : CardBytes, connect_raises : BOOLEAN, transmit_raises : BOOLEAN,
     sw1 : {SW_SUCCESS_1, 106}, sw2 : {SW_SUCCESS_2, 130},
     disconnect_raises : BOOLEAN]

\* get_card_uid without the test of the status pair.
GetCardUidAnyStatus(x) ==
    IF x.transmit_raises THEN None ELSE JoinHex(x.response)

get_card_uid(x) ==
    IF x.transmit_raises THEN None
    ELSE IF x.sw1 = SW_SUCCESS_1 /\ x.sw2 = SW_SUCCESS_2 THEN JoinHex(x.response)
    ELSE None

read_card(x) ==
    IF x.connect_raises THEN None
    ELSE LET card_uid == get_card_uid(x)
         IN  IF x.disconnect_raises THEN None ELSE card_uid

\* Where the exchange fails: at the connect (so with no card on the reader),
\* or with the card connected, when transmit raises, the status pair is not
\* 90 00 or disconnect raises ("none": nothing fails).
ReadFailure(x) ==
    IF x.connect_raises THEN "connect"
    ELSE IF x.transmit_raises
            \/ ~(x.sw1 = SW_SUCCESS_1 /\ x.sw2 = SW_SUCCESS_2)
            \/ x.disconnect_raises
    THEN "card"
    ELSE "none"

\* Every poll: what read_card returns and where the exchange failed.
Polls ==
    {[card |-> read_card(x), failure |-> ReadFailure(x)] : x \in ReaderExchanges}

\* Every value one poll can yield.
PollResults == {read_card(x) : x \in ReaderExchanges}

\* The identifiers of the cards.
Cards == PollResults \ {None}

(***************************************************************************)
(* The suspend signal: is_workstation_locked.                              *)
(***************************************************************************)
Lower(name) ==
    CASE name = "Default" -> "default"
      [] name = "Winlogon" -> "winlogon"
      [] OTHER -> name

\* What the desktop API answers: the handle of OpenInputDesktop (0: failed),
\* GetForegroundWindow (0: none), the result of GetUserObjectInformationW
\* and the name it fills in.
DesktopAnswers ==
    [hDesktop : {0, 1}, foreground : {0, 1}, result : BOOLEAN,
     desktop_name : {"Default", "default", "Winlogon"}]

is_workstation_locked(d) ==
    IF d.hDesktop = 0 THEN d.foreground = 0
    ELSE IF ~d.result THEN TRUE
    ELSE Lower(d.desktop_name) # "default"

SuspendSignals == {is_workstation_locked(d) : d \in DesktopAnswers}

(***************************************************************************)
(* The registry: the users file, save_user_to_file (add_user.py) and       *)
(* load_authorized_users with its module-level cache.                      *)
(***************************************************************************)
EmptyDict == [c \in {} |-> None]

Put(d, k, v) == [c \in DOMAIN d \cup {k} |-> IF c = k THEN v ELSE d[c]]

\* str.upper() on the card numbers that occur in the users file
Upper(s) ==
    CASE s = "a1" -> "A1"
      [] s = "b2" -> "B2"
      [] OTHER -> s

\* {user['card_number'].upper(): user['name'] for user in data['users']}
RECURSIVE UsersDict(_)
UsersDict(users) ==
    IF users = <<>> THEN EmptyDict
    ELSE LET n == Len(users)
         IN  Put(UsersDict(SubSeq(users, 1, n - 1)),
                 Upper(users[n].card_number), users[n].name)

\* The users file: whether it exists, its modification time (a version
\* counter, kept while the file is missing) and its content: a list of
\* users, an empty file, text that is not JSON, or JSON with no 'users'.
UsersFile(exists, mtime, kind, users) ==
    [exists |-> exists, mtime |-> mtime, kind |-> kind, users |-> users]

RECURSIVE RemoveCard(_, _)
RemoveCard(users, card_number) ==
    IF users = <<>> THEN <<>>
    ELSE (IF Head(users).card_number # card_number THEN <<Head(users)>> ELSE <<>>)
         \o RemoveCard(Tail(users), card_number)

save_user_to_file(file, name, card_number) ==
    LET data == IF file.exists /\ file.kind = "users" THEN file.users ELSE <<>>
        kept == RemoveCard(data, card_number)
    IN  UsersFile(TRUE, file.mtime + 1, "users",
                  Append(kept, [name |-> name, card_number |-> card_number]))

\* A reload that gives up the cache when the content does not parse.
ParseFailureDropsCache(file, cached, last_mtime) ==
    [users |-> EmptyDict, cached |-> EmptyDict, last_mtime |-> file.mtime,
     read |-> TRUE]

\* Lines 73-78: the content does not parse; the handlers return the cache
\* and assign nothing.
ParseFailure(file, cached, last_mtime) ==
    [users |-> cached, cached |-> cached, last_mtime |-> last_mtime,
     read |-> TRUE]

\* Lines 56-71: the file is read and parsed, and the cache replaced.
Reload(file, cached, last_mtime) ==
    IF file.kind = "malformed"
    THEN ParseFailure(file, cached, last_mtime)
    ELSE LET new_users == IF file.kind = "users" THEN UsersDict(file.users)
                          ELSE EmptyDict
         IN  [users |-> new_users, cached |-> new_users,
              last_mtime |-> file.mtime, read |-> TRUE]

\* load_authorized_users without the comparison of modification times.
LoadWithoutCache(file, cached, last_mtime) ==
    IF ~file.exists
    THEN [users |-> EmptyDict, cached |-> cached, last_mtime |-> last_mtime,
          read |-> FALSE]
    ELSE Reload(file, cached, last_mtime)

\* load_authorized_users: the returned mapping, the cache afterwards and
\* whether the file was read.
load_authorized_users(file, cached, last_mtime) ==
    IF ~file.exists
    THEN [users |-> EmptyDict, cached |-> cached, last_mtime |-> last_mtime,
          read |-> FALSE]
    ELSE IF file.mtime = last_mtime
    THEN [users |-> cached, cached |-> cached, last_mtime |-> last_mtime,
          read |-> FALSE]
    ELSE Reload(file, cached, last_mtime)

(***************************************************************************)
(* AccessControlApp.check_loop                                             *)
(***************************************************************************)
WAITING == "Waiting for card..."
PLACE_CARD == "Please place card on reader"
NOT_REGISTERED == "Card Not Registered"

Event(action, card, user) == [action |-> action, card |-> card, user |-> user]

\* The call that raises on a tick, if the tick reaches it: the audit append
\* of Session Ended, the audit append of Access Granted, or LockWorkStation.
Faults == {"none", "log_session_ended", "log_granted", "lock"}

\* Step 3: the status and the resolved name of the polled card.
Status(card_number, authorized_users) ==
    IF card_number = None THEN "NO_CARD"
    ELSE IF card_number \in DOMAIN authorized_users THEN "AUTHORIZED"
    ELSE "UNAUTHORIZED"

UserName(card_number, authorized_users) ==
    IF card_number # None /\ card_number \in DOMAIN authorized_users
    THEN authorized_users[card_number]
    ELSE None

\* Step 4: edge detection.  log_access raising ends the tick at that call.
EdgeDetection(s, card_number, authorized_users, fault) ==
    LET status == Status(card_number, authorized_users)
        user_name == UserName(card_number, authorized_users)
        unchanged == [last_card |-> s.last_card,
                      last_user_name |-> s.last_user_name]
        ended == s.last_card # None /\ s.last_user_name # None
        end_events == IF ended
                      THEN <<Event("Session Ended", s.last_card, s.last_user_name)>>
                      ELSE <<>>
        granted == card_number # None /\ status = "AUTHORIZED"
    IN  IF card_number = s.last_card
        THEN unchanged @@ [events |-> <<>>, raised |-> FALSE]
        ELSE IF ended /\ fault = "log_session_ended"
        THEN unchanged @@ [events |-> <<>>, raised |-> TRUE]
        ELSE IF granted /\ fault = "log_granted"
        THEN unchanged @@ [events |-> end_events, raised |-> TRUE]
        ELSE [last_card |-> card_number, last_user_name |-> user_name,
              events |-> end_events \o
                         (IF granted
                          THEN <<Event("Access Granted", card_number, user_name)>>
                          ELSE <<>>),
              raised |-> FALSE]

\* A timer that keeps running after the lock call.
ResetTimerKeepStart(start) == start

\* Lines 341-343: the timer restarts after the lock call.
ResetTimer(start) == Now

\* A lock call whose exception leaves the body of check_loop: the statements
\* after the call are not run.
LockCallUncaught(start, fault) ==
    [no_card_start_time |-> IF fault = "lock" THEN start ELSE ResetTimer(start),
     raised |-> fault = "lock"]

\* Lines 333-343: LockWorkStation is called in a try of its own, so its
\* exception is caught at the call and the timer restarts all the same.
LockCall(start, fault) ==
    [no_card_start_time |-> ResetTimer(start), raised |-> FALSE]

\* Step 5: display and timeout.
TimeoutStep(s, status, is_locked, fault) ==
    IF status = "AUTHORIZED" \/ is_locked
    THEN [no_card_start_time |-> NoTime, visible |-> FALSE,
          last_display_text |-> s.last_display_text,
          canvas_text |-> s.canvas_text, timer_text |-> NoTime, locks |-> 0,
          lock_raised |-> FALSE, raised |-> FALSE, remaining |-> <<>>]
    ELSE LET display_text == IF status = "UNAUTHORIZED" THEN NOT_REGISTERED
                             ELSE PLACE_CARD
             start == IF s.no_card_start_time = NoTime THEN Now
                      ELSE s.no_card_start_time
             elapsed == Now - start
             remaining == TIMEOUT_SECONDS - elapsed
             lock == LockCall(start, fault)
         IN  [no_card_start_time |-> IF remaining <= 0
                                     THEN lock.no_card_start_time
                                     ELSE start,
              visible |-> TRUE,
              last_display_text |-> display_text,
              canvas_text |-> display_text,
              timer_text |-> IF remaining > 0 THEN remaining
                             ELSE IF lock.raised THEN NoTime
                             ELSE TIMEOUT_SECONDS,
              locks |-> IF remaining <= 0 THEN 1 ELSE 0,
              lock_raised |-> remaining <= 0 /\ fault = "lock",
              raised |-> remaining <= 0 /\ lock.raised,
              remaining |-> <<remaining>>]

\* The body of check_loop on the session state s: the state afterwards,
\* the audit events appended, whether a call raised out of the body, the
\* number of LockWorkStation calls, whether that call raised, remaining as
\* line 331 computes it (<<>>: not computed) and the seconds written to the
\* timer item (NoTime: not written).
check_loop(s, card_number, authorized_users, is_locked, fault) ==
    LET status == Status(card_number, authorized_users)
        edge == EdgeDetection(s, card_number, authorized_users, fault)
        s1 == [s EXCEPT !.last_card = edge.last_card,
                        !.last_user_name = edge.last_user_name]
        t == TimeoutStep(s1, status, is_locked, fault)
    IN  IF edge.raised
        THEN [session |-> s, events |-> edge.events, raised |-> TRUE,
              locks |-> 0, lock_raised |-> FALSE, remaining |-> <<>>,
              timer_text |-> NoTime]
        ELSE [session |-> [s1 EXCEPT
                  !.no_card_start_time = t.no_card_start_time,
                  !.visible = t.visible,
                  !.last_display_text = t.last_display_text,
                  !.canvas_text = t.canvas_text],
              events |-> edge.events, raised |-> t.raised,
              locks |-> t.locks, lock_raised |-> t.lock_raised,
              remaining |-> t.remaining, timer_text |-> t.timer_text]

(***************************************************************************)
(* State.                                                                  *)
(***************************************************************************)
VARIABLES
    after_ms,            \* the delay of the pending root.after call
    last_card,           \* self.last_card
    last_user_name,      \* self.last_user_name
    no_card_start_time,  \* self.no_card_start_time
    last_display_text,   \* self.last_display_text
    canvas_text,         \* the text of canvas item text_id
    visible,             \* the window: deiconify / withdraw
    log,                 \* the audit trail, access_log.txt
    users_file,          \* authorized_users.json
    cached_users,        \* _cached_users
    last_mtime,          \* _last_mtime
    tick,                \* what the last run of check_loop saw and did, the
                         \* last call of load_authorized_users, and whether
                         \* the card has been UNAUTHORIZED on every tick
                         \* since it was put on the reader
    since,               \* timestamp of the latest of: process start, an
                         \* AUTHORIZED or suspended tick, a lock
    last_lock,           \* timestamp of the last LockWorkStation call
    period_start,        \* timestamp of the first tick of the current run
                         \* of ticks with no valid card and no suspension
    period_locked,       \* whether a tick of that run called LockWorkStation
    run,                 \* the current run of AUTHORIZED ticks of one card
    sess,                \* the last card Access Granted was logged for
    away                 \* whether that card has since left the reader

session_vars == <<last_card, last_user_name, no_card_start_time,
                  last_display_text, canvas_text, visible>>
registry_vars == <<users_file, cached_users, last_mtime>>
history_vars == <<tick, since, last_lock, period_start, period_locked, run,
                  sess, away>>
vars == <<after_ms, session_vars, log, registry_vars, history_vars>>

Session ==
    [last_card |-> last_card, last_user_name |-> last_user_name,
     no_card_start_time |-> no_card_start_time,
     last_display_text |-> last_display_text, canvas_text |-> canvas_text,
     visible |-> visible]

NoTick ==
    [card |-> None, status |-> "NONE", user_name |-> None, is_locked |-> FALSE,
     raised |-> FALSE, locks |-> 0, lock_raised |-> FALSE, remaining |-> <<>>,
     events |-> <<>>, timer_text |-> NoTime, since |-> NoTime,
     prev_lock |-> NoTime, read |-> "none", lookup |-> <<>>, unreg |-> FALSE]

NoRun == [card |-> None, granted |-> 0]
NoSess == [card |-> None, user |-> None, ended |-> 0]

\* The modification time of the users file at startup.
InitialMtime == 1

\* The users file main() finds at startup.
InitialFiles ==
    {UsersFile(FALSE, InitialMtime, "empty", <<>>),
     UsersFile(TRUE, InitialMtime, "users",
               <<[name |-> "Alice", card_number |-> "A1"]>>)}

\* The entries a users file can hold: the file is JSON kept by the
\* enrollment tool and by hand, and load_authorized_users accepts card
\* numbers in either case.
FileEntries == [name : Names, card_number : Cards \cup {"a1", "b2"}]

\* The users files the enrollment tool can find: none, or one that lists up
\* to two cards, each card once.
EnrollFiles ==
    {UsersFile(FALSE, InitialMtime, "empty", <<>>)}
    \cup {UsersFile(TRUE, InitialMtime, "users", <<>>)}
    \cup {UsersFile(TRUE, InitialMtime, "users", <<e>>) : e \in FileEntries}
    \cup {UsersFile(TRUE, InitialMtime, "users", <<p[1], p[2]>>) :
            p \in {q \in FileEntries \X FileEntries :
                      Upper(q[1].card_number) # Upper(q[2].card_number)}}

\* main() loads the registry, then AccessControlApp.__init__ runs.
InitFrom(files) ==
    /\ after_ms = FIRST_DELAY_MS
    /\ last_card = None
    /\ last_user_name = None
    /\ no_card_start_time = Now
    /\ last_display_text = ""
    /\ canvas_text = WAITING
    /\ visible = TRUE
    /\ log = <<>>
    /\ users_file \in files
    /\ LET r == load_authorized_users(users_file, EmptyDict, 0)
       IN  cached_users = r.cached /\ last_mtime = r.last_mtime
    /\ tick = NoTick
    /\ since = Now
    /\ last_lock = NoTime
    /\ period_start = NoTime
    /\ period_locked = FALSE
    /\ run = NoRun
    /\ sess = NoSess
    /\ away = FALSE

Init == InitFrom(InitialFiles)

InitEnroll == InitFrom(EnrollFiles)

(***************************************************************************)
(* History of the ticks and of the audit trail, kept for the properties.   *)
(***************************************************************************)
Min(a, b) == IF a < b THEN a ELSE b
Max(a, b) == IF a > b THEN a ELSE b

\* A timestamp dt seconds later.
Shift(ts, dt) == IF ts = NoTime THEN NoTime ELSE ts - dt

\* The same for a timestamp of the history, of which only "at least
\* TIMEOUT_SECONDS ago" matters.
ShiftHistory(ts, dt) ==
    IF ts = NoTime THEN NoTime ELSE Max(ts - dt, 0 - TIMEOUT_SECONDS)

CountEvents(events, e) == Cardinality({i \in DOMAIN events : events[i] = e})

\* The session record after the events of one tick.
RECURSIVE SessAfter(_, _)
SessAfter(ss, events) ==
    IF events = <<>> THEN ss
    ELSE LET e == Head(events)
             next == IF e.action = "Access Granted"
                     THEN [card |-> e.card, user |-> e.user, ended |-> 0]
                     ELSE IF e.card = ss.card /\ e.user = ss.user
                     THEN [ss EXCEPT !.ended = Min(2, ss.ended + 1)]
                     ELSE ss
         IN  SessAfter(next, Tail(events))

HasGranted(events) == \E i \in DOMAIN events : events[i].action = "Access Granted"

(***************************************************************************)
(* Actions.                                                                *)
(***************************************************************************)
\* One run of check_loop, dt seconds after the previous one, for every poll,
\* suspend signal and raising call the tick reaches; limit bounds the age of
\* the timer start and the time with no valid access the tick is run with.
\* The history of the lock timing (since, last_lock, period_start and
\* period_locked) is kept when timed, which is where locks can happen.
CheckLoopTick(limit, timed) ==
    \E poll \in Polls :
    \E card_number \in {poll.card} :
    \E loaded \in {IF card_number # None
                   THEN load_authorized_users(users_file, cached_users,
                                              last_mtime)
                   ELSE [users |-> EmptyDict, cached |-> cached_users,
                         last_mtime |-> last_mtime, read |-> FALSE]} :
    \E status \in {Status(card_number, loaded.users)},
       user_name \in {UserName(card_number, loaded.users)} :
    \E dt \in (after_ms \div 1000) .. MaxStep,
       is_locked \in SuspendSignals, fault \in Faults :
      /\ Now - Shift(no_card_start_time, dt) <= limit
      /\ timed => Now - ShiftHistory(since, dt) <= limit
      /\ \E o \in {check_loop([Session EXCEPT !.no_card_start_time =
                                   Shift(no_card_start_time, dt)],
                              card_number, loaded.users, is_locked, fault)} :
           LET valid == status = "AUTHORIZED" \/ is_locked
               same_run == status = "AUTHORIZED" /\ run.card = card_number
               grants == CountEvents(o.events,
                             Event("Access Granted", card_number, user_name))
           IN  /\ fault = "none" \/ o.raised \/ o.lock_raised
               /\ Len(log) + Len(o.events) <= MaxLog
               /\ after_ms' = TICK_DELAY_MS
               /\ last_card' = o.session.last_card
               /\ last_user_name' = o.session.last_user_name
               /\ no_card_start_time' = o.session.no_card_start_time
               /\ last_display_text' = o.session.last_display_text
               /\ canvas_text' = o.session.canvas_text
               /\ visible' = o.session.visible
               /\ log' = log \o o.events
               /\ cached_users' = loaded.cached
               /\ last_mtime' = loaded.last_mtime
               /\ UNCHANGED users_file
               /\ tick' = [card |-> card_number, status |-> status,
                           user_name |-> user_name, is_locked |-> is_locked,
                           raised |-> o.raised, locks |-> o.locks,
                           lock_raised |-> o.lock_raised,
                           remaining |-> o.remaining,
                           events |-> o.events, timer_text |-> o.timer_text,
                           since |-> IF o.locks > 0 THEN ShiftHistory(since, dt)
                                     ELSE NoTime,
                           prev_lock |-> IF o.locks > 0
                                         THEN ShiftHistory(last_lock, dt)
                                         ELSE NoTime,
                           read |-> poll.failure,
                           lookup |-> IF card_number # None
                                      THEN <<[users |-> loaded.users,
                                              read |-> loaded.read,
                                              mtime |-> users_file.mtime]>>
                                      ELSE tick.lookup,
                           unreg |-> /\ status = "UNAUTHORIZED"
                                     /\ card_number # tick.card \/ tick.unreg]
               /\ since' = IF ~timed THEN since
                           ELSE IF valid \/ o.locks > 0 THEN Now
                           ELSE ShiftHistory(since, dt)
               /\ last_lock' = IF ~timed THEN last_lock
                               ELSE IF o.locks > 0 THEN Now
                               ELSE ShiftHistory(last_lock, dt)
               /\ period_start' = IF ~timed \/ valid THEN NoTime
                                  ELSE IF period_start = NoTime THEN Now
                                  ELSE ShiftHistory(period_start, dt)
               /\ period_locked' = IF ~timed \/ valid THEN FALSE
                                   ELSE IF period_start = NoTime THEN o.locks > 0
                                   ELSE period_locked \/ o.locks > 0
               /\ run' = IF same_run
                         THEN [run EXCEPT !.granted = Min(2, run.granted + grants)]
                         ELSE IF status = "AUTHORIZED"
                         THEN [card |-> card_number, granted |-> grants]
                         ELSE NoRun
               /\ sess' = SessAfter(sess, o.events)
               /\ away' = IF HasGranted(o.events) THEN FALSE
                          ELSE IF sess.card # None /\ card_number # sess.card
                          THEN TRUE
                          ELSE away

Tick == CheckLoopTick(MaxIdle, FALSE)

TimeoutTick == CheckLoopTick(MaxAge, TRUE)

\* The enrollment tool registers a card (add_user.py, save_user_to_file).
RegisterUser ==
    \E name \in Names, card_number \in Cards :
        /\ users_file.mtime < InitialMtime + MaxWrites
        /\ users_file' = save_user_to_file(users_file, name, card_number)
        /\ UNCHANGED <<after_ms, session_vars, log, cached_users, last_mtime,
                       history_vars>>

\* The users file is deleted, truncated or damaged outside the program.
EditUsersFile ==
    \E exists \in BOOLEAN, kind \in {"empty", "malformed"} :
        /\ users_file.mtime < InitialMtime + MaxWrites
        /\ exists \/ kind = "empty"
        /\ users_file' = UsersFile(exists, users_file.mtime + 1, kind, <<>>)
        /\ UNCHANGED <<after_ms, session_vars, log, cached_users, last_mtime,
                       history_vars>>

Next == Tick \/ RegisterUser \/ EditUsersFile

\* The whole system, followed over short idle periods.
Spec == Init /\ [][Next]_vars

\* The access loop alone with the registry as found at startup, followed
\* until the timer has expired.
SpecTimeout == Init /\ [][TimeoutTick]_vars

\* The enrollment tool alone, on every users file it can find.
SpecEnroll == InitEnroll /\ [][RegisterUser]_vars

(***************************************************************************)
(* Properties.                                                             *)
(***************************************************************************)
NoValidAccess(t) == t.status \in {"NO_CARD", "UNAUTHORIZED"} /\ ~t.is_locked
ValidAccess(t) == t.status = "AUTHORIZED" \/ (t.status # "NONE" /\ t.is_locked)

\* C1: once ticks have gone on for TIMEOUT_SECONDS with no AUTHORIZED card
\* and no suspension, one of them has called the lock action, whatever the
\* audit appends do.
C1_LockWithinTimeout ==
    (period_start # NoTime /\ Now - period_start >= TIMEOUT_SECONDS)
        => period_locked

\* C2: a tick calls the lock action only if its status is NO_CARD or
\* UNAUTHORIZED, the session is not suspended, and TIMEOUT_SECONDS have
\* passed since process start, the last AUTHORIZED or suspended tick and
\* the last lock.
C2_LockOnlyAfterTimeout ==
    tick.locks > 0
        => /\ NoValidAccess(tick)
           /\ Now - tick.since >= TIMEOUT_SECONDS

\* C3: after a tick, last_card is that tick's poll result.
C3_LastCardIsPoll == tick.status # "NONE" => last_card = tick.card

\* C4: after a tick whose status is AUTHORIZED (the first with the card or
\* a later one), no_card_start_time is None.
C4_AuthorizedStopsTimer ==
    tick.status = "AUTHORIZED" => no_card_start_time = NoTime

\* C5: when a tick with no valid access follows an AUTHORIZED or suspended
\* tick, the timer starts at the time of that tick.
C5_FreshTimerOnTransition ==
    [][(ValidAccess(tick) /\ NoValidAccess(tick'))
           => no_card_start_time' = Now]_vars

\* C6: a run of consecutive AUTHORIZED ticks of one card has logged Access
\* Granted for it exactly once when it ends, and never more than once.
C6_GrantedOncePerRun ==
    /\ [](run.granted <= 1)
    /\ [][(run.card # None
             /\ ~(tick'.status = "AUTHORIZED" /\ tick'.card = run.card))
            => run.granted = 1]_vars

\* C7: once the card Access Granted was logged for has left the reader,
\* Session Ended has been logged for that card and name exactly once.
C7_SessionEndedOnce == (sess.card # None /\ away) => sess.ended = 1

\* C8: a tick with no valid access that finds remaining <= 0 calls the lock
\* action once and restarts the timer at its own time, and two lock calls
\* are at least TIMEOUT_SECONDS apart.
C8_LockOnceAndReset ==
    /\ tick.locks <= 1
    /\ (NoValidAccess(tick) /\ tick.remaining # <<>> /\ tick.remaining[1] <= 0)
           => (tick.locks = 1 /\ no_card_start_time = Now)
    /\ (tick.locks = 1 /\ tick.prev_lock # NoTime)
           => Now - tick.prev_lock >= TIMEOUT_SECONDS

\* C8 witness: a second lock, on a tick that found the timer expired.
C8_Witness ==
    /\ tick.locks = 1
    /\ tick.prev_lock # NoTime
    /\ tick.remaining # <<>> /\ tick.remaining[1] < 0
    /\ no_card_start_time = Now

\* C9: after a suspended tick whose status is not AUTHORIZED the timer is
\* cleared, the window is hidden and the lock action was not called.
C9_SuspendedClearsTimer ==
    (tick.is_locked /\ tick.status \in {"NO_CARD", "UNAUTHORIZED"})
        => /\ no_card_start_time = NoTime
           /\ ~visible
           /\ tick.locks = 0

\* C10: a tick on which log_access raised still records the polled card
\* and its user and still runs the timeout and display step.
C10_LogFailureDoesNotAbort ==
    tick.raised
        => /\ last_card = tick.card
           /\ last_user_name = tick.user_name
           /\ ValidAccess(tick) => (no_card_start_time = NoTime /\ ~visible)
           /\ NoValidAccess(tick)
                  => /\ visible
                     /\ no_card_start_time # NoTime
                     /\ last_display_text =
                            (IF tick.status = "UNAUTHORIZED" THEN NOT_REGISTERED
                             ELSE PLACE_CARD)

\* C11: a poll whose exchange failed (connect, transmit or disconnect raised,
\* or the status pair was not 90 00) returned None: the tick's status is
\* NO_CARD, it logged no Access Granted and it recorded no card, as a tick
\* with no card on the reader.
C11_ReaderFailsClosed ==
    tick.read # "none"
        => /\ tick.card = None
           /\ tick.status = "NO_CARD"
           /\ tick.user_name = None
           /\ ~HasGranted(tick.events)
           /\ ~tick.raised => last_card = None

\* C11 witness: the card of a session is on the reader and the exchange
\* fails after the connect; the tick ends the session as if the card had
\* been taken away.
C11_Witness ==
    /\ tick.read = "card"
    /\ tick.card = None
    /\ tick.status = "NO_CARD"
    /\ Len(tick.events) = 1 /\ tick.events[1].action = "Session Ended"
    /\ last_card = None

\* C12: a tick whose lock call raised still runs to its end: it restarted
\* the timer at its own time and wrote the full timeout to the timer item;
\* and the tick that follows it does not call the lock action.
C12_LockFailureResetsTimer ==
    /\ [](tick.lock_raised
             => /\ ~tick.raised
                /\ tick.locks = 1
                /\ no_card_start_time = Now
                /\ tick.timer_text = TIMEOUT_SECONDS)
    /\ [][tick.lock_raised => tick'.locks = 0]_vars

\* C12 witness: the timer expired, the lock call raised and the timer was
\* restarted.
C12_Witness ==
    /\ tick.lock_raised
    /\ tick.remaining # <<>> /\ tick.remaining[1] <= 0
    /\ no_card_start_time = Now
    /\ tick.timer_text = TIMEOUT_SECONDS

\* A step that is a run of check_loop calling load_authorized_users: the
\* tick polled a card, and the users file is the one it was before.
LookupStep == users_file' = users_file /\ tick'.card # None

\* C13: a lookup that finds the users file with a modification time other
\* than the cached one and content that does not parse reads the file,
\* returns the cached users and leaves the cached users and the cached
\* modification time as they were, and the tick resolves its card with the
\* returned users.
C13_StaleFallback ==
    [][(/\ LookupStep
        /\ users_file.exists
        /\ users_file.mtime # last_mtime
        /\ users_file.kind = "malformed")
           => /\ tick'.lookup[1].read
              /\ tick'.lookup[1].users = cached_users
              /\ cached_users' = cached_users
              /\ last_mtime' = last_mtime
              /\ tick'.status = Status(tick'.card, cached_users)
              /\ tick'.user_name = UserName(tick'.card, cached_users)]_vars

\* C13 witness: the users file was damaged after it had been loaded; the
\* last lookup read the damaged file and the card on the reader is still
\* AUTHORIZED by the users loaded before.
C13_Witness ==
    /\ users_file.exists /\ users_file.kind = "malformed"
    /\ tick.card # None
    /\ tick.lookup[1].mtime = users_file.mtime
    /\ tick.lookup[1].read
    /\ last_mtime # users_file.mtime
    /\ cached_users # EmptyDict
    /\ tick.lookup[1].users = cached_users
    /\ tick.status = "AUTHORIZED"

\* C14, as stated: of two lookups in a row with the users file in place and
\* its modification time the same, the second does not read the file and
\* returns the mapping the first returned.
C14_CacheHit ==
    [][(/\ LookupStep
        /\ tick.lookup # <<>>
        /\ users_file.exists
        /\ tick.lookup[1].mtime = users_file.mtime)
           => /\ ~tick'.lookup[1].read
              /\ tick'.lookup[1].users = tick.lookup[1].users]_vars

\* C14, amended: the same for a users file whose content parses.
C14_CacheHitWhenParsed ==
    [][(/\ LookupStep
        /\ tick.lookup # <<>>
        /\ users_file.exists
        /\ tick.lookup[1].mtime = users_file.mtime
        /\ users_file.kind # "malformed")
           => /\ ~tick'.lookup[1].read
              /\ tick'.lookup[1].users = tick.lookup[1].users
              /\ cached_users' = cached_users
              /\ last_mtime' = last_mtime]_vars

\* C14 witness: a lookup answered from the cache, for a users file written
\* while the loop was running and loaded by an earlier lookup.
C14_Witness ==
    /\ tick.card # None
    /\ users_file.exists
    /\ users_file.mtime # InitialMtime
    /\ tick.lookup[1].mtime = users_file.mtime
    /\ last_mtime = users_file.mtime
    /\ ~tick.lookup[1].read
    /\ tick.lookup[1].users = cached_users
    /\ cached_users # EmptyDict

EventsOf(events, card) == {i \in DOMAIN events : events[i].card = card}

\* C15: a tick whose card is UNAUTHORIZED logs nothing for that card; when
\* a card that has been UNAUTHORIZED since it was put on the reader leaves
\* it, nothing is logged for that card; and every record of the audit
\* trail has a card and a user name.
C15_UnregisteredLeavesNoTrace ==
    /\ [](tick.status = "UNAUTHORIZED" => EventsOf(tick.events, tick.card) = {})
    /\ [](\A i \in DOMAIN log : log[i].card # None /\ log[i].user # None)
    /\ [][(users_file' = users_file /\ tick.unreg /\ tick'.card # tick.card)
             => EventsOf(tick'.events, tick.card) = {}]_vars

\* C16: the users file never holds two entries for one card number, case
\* ignored, and after the enrollment tool has registered a card the users
\* loaded from the file resolve that card to the name just registered.
C16_LastWriteWins ==
    /\ [](users_file.kind = "users"
             => \A i, j \in DOMAIN users_file.users :
                    Upper(users_file.users[i].card_number)
                        = Upper(users_file.users[j].card_number) => i = j)
    /\ [][(users_file' # users_file /\ users_file'.kind = "users")
             => LET users == users_file'.users
                    last == users[Len(users)]
                IN  UsersDict(users)[Upper(last.card_number)] = last.name]_vars

\* C17: after every tick, last_user_name is the name the users consulted on
\* that tick hold for the polled card when the status is AUTHORIZED, and
\* None when it is not.
C17_UserNameIsResolvedName ==
    tick.status # "NONE"
        => last_user_name = (IF tick.status = "AUTHORIZED"
                             THEN UserName(tick.card, tick.lookup[1].users)
                             ELSE None)

\* C18: a run of check_loop that raised out of its body leaves last_card,
\* last_user_name, the start of the timer and the displayed text as they
\* were and has appended nothing to the audit trail.
C18_RaisedTickChangesNothing ==
    [][(users_file' = users_file /\ tick'.raised)
          => /\ last_card' = last_card
             /\ last_user_name' = last_user_name
             /\ \E dt \in 0 .. MaxStep :
                    no_card_start_time' = Shift(no_card_start_time, dt)
             /\ last_display_text' = last_display_text
             /\ canvas_text' = canvas_text
             /\ log' = log]_vars

\* C19: a tick that polls an AUTHORIZED card right after a tick that polled
\* another AUTHORIZED card logs Session Ended for the earlier card and its
\* user and then Access Granted for the new card and its user, and leaves
\* last_card and last_user_name at the new card and its user.
C19_SwapEndsThenGrants ==
    [][(/\ users_file' = users_file
        /\ tick.status = "AUTHORIZED"
        /\ tick'.status = "AUTHORIZED"
        /\ tick'.card # tick.card)
           => /\ tick'.events =
                     <<Event("Session Ended", tick.card, tick.user_name),
                       Event("Access Granted", tick'.card, tick'.user_name)>>
              /\ last_card' = tick'.card
              /\ last_user_name' = tick'.user_name]_vars

\* C20: of two ticks in a row with no valid access (NO_CARD or
\* UNAUTHORIZED, not suspended), the second leaves the start of the timer
\* where the first left it, unless it calls the lock action.
C20_UnregisteredNeverExtends ==
    [][(NoValidAccess(tick) /\ NoValidAccess(tick'))
          => \/ tick'.locks = 1
             \/ \E dt \in 1 .. MaxStep :
                    no_card_start_time' = Shift(no_card_start_time, dt)]_vars

\* Whether a sequence of audit records is well bracketed, given the set of
\* sessions open before it: Access Granted opens a session for its card and
\* user when none is open, Session Ended closes the open session of the same
\* card and user.
RECURSIVE WellBracketed(_, _)
WellBracketed(events, open) ==
    IF events = <<>> THEN TRUE
    ELSE LET e == Head(events)
             session == [card |-> e.card, user |-> e.user]
         IN  IF e.action = "Access Granted"
             THEN open = {} /\ WellBracketed(Tail(events), {session})
             ELSE session \in open
                  /\ WellBracketed(Tail(events), open \ {session})

\* C21: in the audit trail every Session Ended follows an Access Granted of
\* the same card and user with no other Session Ended of it in between, and
\* at most one Access Granted is without its Session Ended.
C21_SessionsWellBracketed == WellBracketed(log, {})

=============================================================================
